---- MODULE Spec2Model ----
(***************************************************************************)
(* Model of the holiday countdown plugin (src/main.py): the background     *)
(* refresh HolidayFetcher.run with its cache directory, and the Plugin     *)
(* that starts refreshes and shows their results.                          *)
(*                                                                         *)
(* Text is modelled as a sequence of one-character strings, a JSON value   *)
(* as a tagged record, a cache file as the sequence of JSON tokens that    *)
(* json.dump writes, and the wall clock as a calendar date with an hour.   *)
(***************************************************************************)
EXTENDS Integers, Sequences, FiniteSets, TLC

\* ------------------------------------------------------------------ bounds
\* number of refreshes (HolidayFetcher objects) a behaviour may start
MaxRefresh == 2
\* number of times the wall clock advances in a behaviour
MaxTicks == 1
\* longest working set drawn for the nearest-holiday scan
MaxData == 3

\* ------------------------------------------------------------------ text
Digits == <<"0", "1", "2", "3", "4", "5", "6", "7", "8", "9">>

IsDigit(c) == \E i \in 1..10 : Digits[i] = c

DigitVal(c) == (CHOOSE i \in 1..10 : Digits[i] = c) - 1

AllDigits(s) == \A i \in 1..Len(s) : IsDigit(s[i])

RECURSIVE int(_)
\* int(text) of a non-empty all-digit text
int(s) ==
    IF Len(s) = 0 THEN 0
    ELSE 10 * int(SubSeq(s, 1, Len(s) - 1)) + DigitVal(s[Len(s)])

RECURSIVE str(_)
\* str(n) / f"{n}" of a natural number
str(n) ==
    IF n < 10 THEN <<Digits[n + 1]>>
    ELSE str(n \div 10) \o <<Digits[(n % 10) + 1]>>

\* f"{n:02d}", used to write the dates of the endpoint's payloads
Pad2(n) == IF n < 10 THEN <<"0">> \o str(n) ELSE str(n)

StartsWith(s, p) == Len(s) >= Len(p) /\ SubSeq(s, 1, Len(p)) = p

\* positions of the character c in s
Positions(s, c) == {i \in 1..Len(s) : s[i] = c}

\* ------------------------------------------------------------------ dates
IsLeap(y) == (y % 4 = 0 /\ y % 100 # 0) \/ y % 400 = 0

DaysInMonth(y, m) ==
    IF m = 2 THEN (IF IsLeap(y) THEN 29 ELSE 28)
    ELSE IF m \in {4, 6, 9, 11} THEN 30 ELSE 31

RECURSIVE DaysBeforeMonth(_, _)
DaysBeforeMonth(y, m) ==
    IF m = 1 THEN 0 ELSE DaysBeforeMonth(y, m - 1) + DaysInMonth(y, m - 1)

\* datetime.toordinal(): days since 0001-01-01, that day being 1
toordinal(y, m, d) ==
    LET p == y - 1
    IN  p * 365 + (p \div 4) - (p \div 100) + (p \div 400)
          + DaysBeforeMonth(y, m) + d

\* a datetime, to the hour
datetime(y, m, d, h) == [year |-> y, month |-> m, day |-> d, hour |-> h]

\* hours since 0001-01-01 00:00 of a datetime
Hours(dt) == (toordinal(dt.year, dt.month, dt.day) - 1) * 24 + dt.hour

\* dt + 12 hours
HalfDayLater(dt) ==
    IF dt.hour + 12 < 24 THEN [dt EXCEPT !.hour = dt.hour + 12]
    ELSE IF dt.day < DaysInMonth(dt.year, dt.month)
         THEN [dt EXCEPT !.hour = dt.hour + 12 - 24, !.day = dt.day + 1]
    ELSE IF dt.month < 12
         THEN [dt EXCEPT !.hour = dt.hour + 12 - 24, !.day = 1,
                         !.month = dt.month + 1]
    ELSE [dt EXCEPT !.hour = dt.hour + 12 - 24, !.day = 1, !.month = 1,
                    !.year = dt.year + 1]

\* datetime.strptime(s, "%Y-%m-%d"): [ok |-> FALSE] stands for ValueError.
\* %Y takes exactly four digits, %m and %d one or two digits.
strptime(s) ==
    LET dash == Positions(s, "-")
    IN  IF Cardinality(dash) # 2 THEN [ok |-> FALSE]
        ELSE
          LET p1 == CHOOSE i \in dash : \A j \in dash : i <= j
              p2 == CHOOSE i \in dash : \A j \in dash : j <= i
              ys == SubSeq(s, 1, p1 - 1)
              ms == SubSeq(s, p1 + 1, p2 - 1)
              ds == SubSeq(s, p2 + 1, Len(s))
          IN  IF /\ Len(ys) = 4 /\ AllDigits(ys)
                 /\ Len(ms) \in {1, 2} /\ AllDigits(ms)
                 /\ Len(ds) \in {1, 2} /\ AllDigits(ds)
                 /\ int(ms) \in 1..12
                 /\ int(ys) >= 1
                 /\ int(ds) \in 1..DaysInMonth(int(ys), int(ms))
              THEN [ok |-> TRUE, dt |-> datetime(int(ys), int(ms), int(ds), 0)]
              ELSE [ok |-> FALSE]

\* ------------------------------------------------------------------ JSON
JNull == [t |-> "null"]
JBool(b) == [t |-> "bool", b |-> b]
JInt(n) == [t |-> "int", n |-> n]
JStr(s) == [t |-> "str", s |-> s]
JList(l) == [t |-> "list", l |-> l]
\* a dict is its items in insertion order, the keys being texts
JDict(kv) == [t |-> "dict", kv |-> kv]

Item(k, v) == [k |-> k, v |-> v]

HasKey(d, k) == \E i \in 1..Len(d.kv) : d.kv[i].k = k

\* d[k] of a dict that has the key
GetItem(d, k) == d.kv[CHOOSE i \in 1..Len(d.kv) : d.kv[i].k = k].v

\* d[k] = v on the items of a dict: replace in place or append
SetItem(kv, k, v) ==
    IF \E i \in 1..Len(kv) : kv[i].k = k
    THEN [i \in 1..Len(kv) |-> IF kv[i].k = k THEN Item(k, v) ELSE kv[i]]
    ELSE Append(kv, Item(k, v))

\* bool(x) of a JSON value
Truthy(x) ==
    CASE x.t = "null" -> FALSE
      [] x.t = "bool" -> x.b
      [] x.t = "int"  -> x.n # 0
      [] x.t = "str"  -> Len(x.s) > 0
      [] x.t = "list" -> Len(x.l) > 0
      [] x.t = "dict" -> Len(x.kv) > 0

\* tokens of a JSON text; Ws is the newline and indentation of indent=2
Tok(p) == [tok |-> p]
Ws == [tok |-> "ws"]
StrTok(s) == [tok |-> "str", s |-> s]
IntTok(n) == [tok |-> "int", n |-> n]

RECURSIVE dump(_)
RECURSIVE DumpElems(_, _)
RECURSIVE DumpItems(_, _)
\* json.dump(x, f, ensure_ascii=False, indent=2): the tokens written
dump(x) ==
    CASE x.t = "null" -> <<Tok("null")>>
      [] x.t = "bool" -> <<Tok(IF x.b THEN "true" ELSE "false")>>
      [] x.t = "int"  -> <<IntTok(x.n)>>
      [] x.t = "str"  -> <<StrTok(x.s)>>
      [] x.t = "list" ->
           IF Len(x.l) = 0 THEN <<Tok("["), Tok("]")>>
           ELSE <<Tok("["), Ws>> \o DumpElems(x.l, 1) \o <<Ws, Tok("]")>>
      [] x.t = "dict" ->
           IF Len(x.kv) = 0 THEN <<Tok("{"), Tok("}")>>
           ELSE <<Tok("{"), Ws>> \o DumpItems(x.kv, 1) \o <<Ws, Tok("}")>>

DumpElems(l, i) ==
    IF i = Len(l) THEN dump(l[i])
    ELSE dump(l[i]) \o <<Tok(","), Ws>> \o DumpElems(l, i + 1)

RECURSIVE DumpItems_NoComma(_, _)
\* DumpItems without the item separator
DumpItems_NoComma(kv, i) ==
    LET one == <<StrTok(kv[i].k), Tok(":")>> \o dump(kv[i].v)
    IN  IF i = Len(kv) THEN one
        ELSE one \o <<Ws>> \o DumpItems_NoComma(kv, i + 1)

DumpItems(kv, i) ==
    LET one == <<StrTok(kv[i].k), Tok(":")>> \o dump(kv[i].v)
    IN  IF i = Len(kv) THEN one
        ELSE one \o <<Tok(","), Ws>> \o DumpItems(kv, i + 1)

RECURSIVE SkipWs(_)
SkipWs(ts) ==
    IF Len(ts) > 0 /\ ts[1].tok = "ws" THEN SkipWs(Tail(ts)) ELSE ts

Fail == [ok |-> FALSE]
Done(v, rest) == [ok |-> TRUE, v |-> v, rest |-> rest]

RECURSIVE ParseValue(_)
RECURSIVE ParseElems(_, _)
RECURSIVE ParseItems(_, _)
\* the JSON decoder: one value from the front of the tokens
ParseValue(ts0) ==
    LET ts == SkipWs(ts0)
    IN  IF Len(ts) = 0 THEN Fail
        ELSE
          LET h == ts[1]
              r == Tail(ts)
          IN  CASE h.tok = "null"  -> Done(JNull, r)
                [] h.tok = "true"  -> Done(JBool(TRUE), r)
                [] h.tok = "false" -> Done(JBool(FALSE), r)
                [] h.tok = "int"   -> Done(JInt(h.n), r)
                [] h.tok = "str"   -> Done(JStr(h.s), r)
                [] h.tok = "["     ->
                     LET r1 == SkipWs(r)
                     IN  IF Len(r1) > 0 /\ r1[1].tok = "]"
                         THEN Done(JList(<<>>), Tail(r1))
                         ELSE ParseElems(r1, <<>>)
                [] h.tok = "{"     ->
                     LET r1 == SkipWs(r)
                     IN  IF Len(r1) > 0 /\ r1[1].tok = "}"
                         THEN Done(JDict(<<>>), Tail(r1))
                         ELSE ParseItems(r1, <<>>)
                [] OTHER -> Fail

\* the elements of a list after "[", acc being those already read
ParseElems(ts, acc) ==
    LET e == ParseValue(ts)
    IN  IF ~e.ok THEN Fail
        ELSE
          LET r == SkipWs(e.rest)
          IN  IF Len(r) = 0 THEN Fail
              ELSE IF r[1].tok = "]" THEN Done(JList(Append(acc, e.v)), Tail(r))
              ELSE IF r[1].tok = "," THEN ParseElems(Tail(r), Append(acc, e.v))
              ELSE Fail

\* the items of a dict after "{", acc being those already read
ParseItems(ts0, acc) ==
    LET ts == SkipWs(ts0)
    IN  IF Len(ts) < 2 \/ ts[1].tok # "str" THEN Fail
        ELSE
          LET c == SkipWs(Tail(ts))
          IN  IF Len(c) = 0 \/ c[1].tok # ":" THEN Fail
              ELSE
                LET e == ParseValue(Tail(c))
                IN  IF ~e.ok THEN Fail
                    ELSE
                      LET r == SkipWs(e.rest)
                          kv == SetItem(acc, ts[1].s, e.v)
                      IN  IF Len(r) = 0 THEN Fail
                          ELSE IF r[1].tok = "}" THEN Done(JDict(kv), Tail(r))
                          ELSE IF r[1].tok = "," THEN ParseItems(Tail(r), kv)
                          ELSE Fail

\* json.load(f): [ok |-> FALSE] stands for JSONDecodeError
load(ts) ==
    LET e == ParseValue(ts)
    IN  IF e.ok /\ Len(SkipWs(e.rest)) = 0 THEN [ok |-> TRUE, v |-> e.v]
        ELSE [ok |-> FALSE]

\* ------------------------------------------------------------------ cache directory
Prefix == <<"h", "o", "l", "i", "d", "a", "y", "s", "_">>
Ext == <<".", "j", "s", "o", "n">>

\* f"holidays_{year}.json"
CacheName(year) == Prefix \o str(year) \o Ext

\* re.compile(r"holidays_(\d{4})\.json").match(filename): the pattern is
\* anchored at the start of the name only; year is int(match.group(1))
PatternMatch(filename) ==
    IF /\ Len(filename) >= Len(Prefix) + 4 + Len(Ext)
       /\ StartsWith(filename, Prefix)
       /\ AllDigits(SubSeq(filename, Len(Prefix) + 1, Len(Prefix) + 4))
       /\ SubSeq(filename, Len(Prefix) + 5, Len(Prefix) + 4 + Len(Ext)) = Ext
    THEN [ok |-> TRUE,
          year |-> int(SubSeq(filename, Len(Prefix) + 1, Len(Prefix) + 4))]
    ELSE [ok |-> FALSE]

\* a directory entry: a file with its text, or a subdirectory, which open()
\* cannot read and os.remove() cannot delete (as it cannot delete, on
\* Windows, a file that another process holds open)
File(text) == [kind |-> "file", text |-> text]
SubDir == [kind |-> "dir"]

\* os.path.exists(name)
Exists(dir, name) == name \in DOMAIN dir

\* the directory with name bound to entry
WithEntry(dir, name, entry) ==
    [n \in (DOMAIN dir) \cup {name} |-> IF n = name THEN entry ELSE dir[n]]

\* the directory without name
WithoutEntry(dir, name) == [n \in (DOMAIN dir) \ {name} |-> dir[n]]

\* ------------------------------------------------------------------ endpoint
K_days == <<"d", "a", "y", "s">>
K_name == <<"n", "a", "m", "e">>
K_date == <<"d", "a", "t", "e">>
K_isOffDay == <<"i", "s", "O", "f", "f", "D", "a", "y">>
K_days_left == <<"d", "a", "y", "s", "_", "l", "e", "f", "t">>
K_year == <<"y", "e", "a", "r">>

\* "YYYY-MM-DD"
DateText(y, m, d) == str(y) \o <<"-">> \o Pad2(m) \o <<"-">> \o Pad2(d)

\* one entry of the endpoint's days array
Rec(name, date, off) ==
    JDict(<<Item(K_name, JStr(<<name>>)), Item(K_date, JStr(date)),
            Item(K_isOffDay, JBool(off))>>)

Body(y, days) == JDict(<<Item(K_year, JInt(y)), Item(K_days, days)>>)

\* two off-days, the later one listed first
PA(y) == Body(y, JList(<<Rec("X", DateText(y, 10, 1), TRUE),
                         Rec("Y", DateText(y, 9, 20), TRUE)>>))

\* a working day and two off-days on one date, and New Year's Day
PB(y) == Body(y, JList(<<Rec("W", DateText(y, 9, 26), FALSE),
                         Rec("Y", DateText(y, 9, 26), TRUE),
                         Rec("Z", DateText(y, 9, 26), TRUE),
                         Rec("N", DateText(y, 1, 1), TRUE)>>))

\* bodies that response.json() accepts but that are not a days list of
\* complete records
PNoDays(y) == JDict(<<Item(K_year, JInt(y))>>)
PNullDays(y) == Body(y, JNull)
PList(y) == JList(<<JInt(y)>>)
PNoFlag(y) ==
    Body(y, JList(<<JDict(<<Item(K_name, JStr(<<"X">>)),
                            Item(K_date, JStr(DateText(y, 10, 1)))>>)>>))

Payloads(y) == {PA(y), PB(y), PNoDays(y), PNullDays(y), PList(y), PNoFlag(y)}

\* what requests.get / raise_for_status / response.json() raise, each a
\* requests.RequestException
FetchErrors == {"ConnectionError", "Timeout", "HTTPError", "JSONDecodeError"}

\* the outcomes of one GET of API_URL.format(year)
Responses(y) ==
    {[ok |-> TRUE, body |-> p] : p \in Payloads(y)}
      \cup {[ok |-> FALSE, exc |-> e] : e \in FetchErrors}

\* ------------------------------------------------------------------ HolidayFetcher helpers
\* self.required_years
required_years(current_year) == <<current_year, current_year + 1>>

YearSet(current_year) == {current_year, current_year + 1}

EmptyList == JList(<<>>)

\* _load_cache(cache_path): the value it returns.  A missing entry, a
\* subdirectory, a text json.load rejects and a JSON value without .get
\* all raise inside the try and give [].
_load_cache(dir, cache_path) ==
    IF ~Exists(dir, cache_path) THEN EmptyList
    ELSE IF dir[cache_path].kind # "file" THEN EmptyList
    ELSE
      LET r == load(dir[cache_path].text)
      IN  IF ~r.ok THEN EmptyList
          ELSE IF r.v.t # "dict" THEN EmptyList
          ELSE IF HasKey(r.v, K_days) THEN GetItem(r.v, K_days)
          ELSE EmptyList

Raised(exc) == [ok |-> FALSE, exc |-> exc]

\* data += x, of line 49: a list is extended by any iterable (a str by its
\* characters, a dict by its keys); anything else raises TypeError
Extend(data, x) ==
    CASE x.t = "list" -> [ok |-> TRUE, data |-> data \o x.l]
      [] x.t = "str"  ->
           [ok |-> TRUE, data |-> data \o [i \in 1..Len(x.s) |-> JStr(<<x.s[i]>>)]]
      [] x.t = "dict" ->
           [ok |-> TRUE, data |-> data \o [i \in 1..Len(x.kv) |-> JStr(x.kv[i].k)]]
      [] OTHER -> Raised("TypeError")

\* (date - now).days
DaysLeft(date, now) == (Hours(date) - Hours(now)) \div 24

\* the dict built at lines 62-66
Holiday(name, date, days_left) ==
    JDict(<<Item(K_name, name), Item(K_date, date),
            Item(K_days_left, JInt(days_left))>>)

\* Closer with <= for <: a later record with an equal days_left wins
Closer_OrEqual(days_left, nearest) ==
    ~Truthy(nearest) \/ days_left <= GetItem(nearest, K_days_left).n

\* the test of line 61
Closer(days_left, nearest) ==
    ~Truthy(nearest) \/ days_left < GetItem(nearest, K_days_left).n

RECURSIVE ScanDays(_, _, _, _)
\* the loop of lines 57-66 from data[i] on; nearest is None (JNull) or a dict
ScanDays(data, i, now, nearest) ==
    IF i > Len(data) THEN [ok |-> TRUE, nearest |-> nearest]
    ELSE
      LET day == data[i]
      IN  IF day.t # "dict" THEN Raised("TypeError")
          ELSE IF ~HasKey(day, K_date) THEN Raised("KeyError")
          ELSE IF GetItem(day, K_date).t # "str" THEN Raised("TypeError")
          ELSE
            LET d == strptime(GetItem(day, K_date).s)
            IN  IF ~d.ok THEN Raised("ValueError")
                ELSE IF ~(Hours(d.dt) >= Hours(now))
                     THEN ScanDays(data, i + 1, now, nearest)
                ELSE IF ~HasKey(day, K_isOffDay) THEN Raised("KeyError")
                ELSE IF ~Truthy(GetItem(day, K_isOffDay))
                     THEN ScanDays(data, i + 1, now, nearest)
                ELSE IF ~Closer(DaysLeft(d.dt, now), nearest)
                     THEN ScanDays(data, i + 1, now, nearest)
                ELSE IF ~HasKey(day, K_name) THEN Raised("KeyError")
                ELSE ScanDays(data, i + 1, now,
                              Holiday(GetItem(day, K_name), GetItem(day, K_date),
                                      DaysLeft(d.dt, now)))

\* OrEmpty without the "or {}": None is emitted as it is
OrEmpty_None(nearest) == nearest

\* nearest or {}
OrEmpty(nearest) == IF Truthy(nearest) THEN nearest ELSE JDict(<<>>)

\* ------------------------------------------------------------------ Plugin helpers
Display(title, content, icon, visible) ==
    [title |-> title, content |-> content, icon |-> icon, visible |-> visible]

\* _update_ui without the setVisible(False) of line 133: a far-off holiday
\* leaves the icon as visible as it was
_update_ui_NoHide(ui, holiday) ==
    IF ~Truthy(holiday)
    THEN Display([kind |-> "loading"], [days |-> JInt(0)], "ASTERISK", TRUE)
    ELSE IF GetItem(holiday, K_days_left).n < 2
    THEN Display([kind |-> "until", name |-> GetItem(holiday, K_name)],
                 [days |-> GetItem(holiday, K_days_left)], "CALORIES", TRUE)
    ELSE Display([kind |-> "until", name |-> GetItem(holiday, K_name)],
                 [days |-> GetItem(holiday, K_days_left)], ui.icon, ui.visible)

\* _update_ui(holiday): the display it leaves
_update_ui(ui, holiday) ==
    IF ~Truthy(holiday)
    THEN Display([kind |-> "loading"], [days |-> JInt(0)], "ASTERISK", TRUE)
    ELSE IF GetItem(holiday, K_days_left).n < 2
    THEN Display([kind |-> "until", name |-> GetItem(holiday, K_name)],
                 [days |-> GetItem(holiday, K_days_left)], "CALORIES", TRUE)
    ELSE Display([kind |-> "until", name |-> GetItem(holiday, K_name)],
                 [days |-> GetItem(holiday, K_days_left)], ui.icon, FALSE)

\* ------------------------------------------------------------------ state
VARIABLES
    clock,        \* datetime.now()
    ticks,        \* how often the clock has advanced
    cache_dir,    \* the entries of self.cache_dir: name -> entry
    fetcher,      \* the HolidayFetcher objects: their fields and the place run() is at
    started,      \* how many refreshes were started; self.worker_thread is fetcher[started]
    retry_timer,  \* self.retry_timer.isActive()
    ui,           \* what the widget shows
    pending,      \* signals emitted and not yet handled on the main thread
    emitted,      \* per fetcher, the signals it has emitted
    fetched,      \* per fetcher, the years it has sent a GET for
    removed,      \* per fetcher, the names it has removed
    startdir      \* per fetcher, the names in the directory when it was constructed

vars == <<clock, ticks, cache_dir, fetcher, started, retry_timer, ui, pending,
          emitted, fetched, removed, startdir>>

Workers == 1..MaxRefresh

\* no response at hand
NoResponse == [t |-> "none"]

\* a HolidayFetcher that does not exist yet; created is the clock its
\* __init__ read, now the clock line 55 read
Idle ==
    [pc |-> "idle", current_year |-> 0, created |-> datetime(1, 1, 1, 0),
     i |-> 1, data |-> <<>>, response |-> NoResponse, listing |-> {},
     now |-> datetime(1, 1, 1, 0)]

\* cache_file of the current iteration of the loop of line 45
cache_file(w) ==
    CacheName(required_years(fetcher[w].current_year)[fetcher[w].i])

DataReady(arg) == [sig |-> "data_ready", arg |-> arg]
FetchFailed(exc) == [sig |-> "fetch_failed", exc |-> exc]

\* self.<signal>.emit(...)
Emit(w, signal) ==
    /\ emitted' = [emitted EXCEPT ![w] = Append(@, signal)]
    /\ pending' = Append(pending, signal)

\* Except with the handler swallowing the exception: nothing is emitted
Except_Silent(w, exc) ==
    /\ UNCHANGED <<emitted, pending>>
    /\ fetcher' = [fetcher EXCEPT ![w].pc = "done", ![w].response = NoResponse,
                                  ![w].listing = {}]

\* an exception reaches line 68: run() emits fetch_failed and returns
Except(w, exc) ==
    /\ Emit(w, FetchFailed(exc))
    /\ fetcher' = [fetcher EXCEPT ![w].pc = "done", ![w].response = NoResponse,
                                  ![w].listing = {}]

\* ------------------------------------------------------------------ initial states
Bak == <<".", "b", "a", "k">>
Notes == <<"n", "o", "t", "e", "s", ".", "t", "x", "t">>

EmptyDir == [n \in {} |-> SubDir]

\* left by last year's runs: a stale cache file, and a stale entry that
\* os.remove cannot delete
StaleDir ==
    (CacheName(2024) :> File(dump(PA(2024)))) @@ (CacheName(2023) :> SubDir)

\* both required years cached, with a stale file, a backup copy and a note
FullDir ==
    (CacheName(2024) :> File(dump(PB(2024))))
      @@ (CacheName(2025) :> File(dump(PA(2025))))
      @@ (CacheName(2026) :> File(dump(PB(2026))))
      @@ ((CacheName(2020) \o Bak) :> File(dump(PA(2020))))
      @@ (Notes :> File(<<>>))

\* both required years cached, this year's next off-day being 26 September
DueDir ==
    (CacheName(2025) :> File(dump(PB(2025))))
      @@ (CacheName(2026) :> File(dump(PA(2026))))

\* where a behaviour starts: a first run in September on any of the
\* directories, a run on New Year's Eve on the full one or on the empty
\* one, or a run at the midnight that begins an off-day
Starts ==
    {[clock |-> datetime(2025, 9, 25, 0), dir |-> d] : d \in {EmptyDir, StaleDir, FullDir}}
      \cup {[clock |-> datetime(2025, 12, 31, 12), dir |-> d] : d \in {FullDir, EmptyDir}}
      \cup {[clock |-> datetime(2025, 9, 26, 0), dir |-> DueDir]}

Unset == Display([kind |-> "unset"], [days |-> JNull], "none", TRUE)

Init ==
    /\ \E s \in Starts : clock = s.clock /\ cache_dir = s.dir
    /\ ticks = 0
    /\ fetcher = [w \in Workers |-> Idle]
    /\ started = 0
    /\ retry_timer = FALSE
    /\ ui = Unset
    /\ pending = <<>>
    /\ emitted = [w \in Workers |-> <<>>]
    /\ fetched = [w \in Workers |-> <<>>]
    /\ removed = [w \in Workers |-> {}]
    /\ startdir = [w \in Workers |-> {}]

\* ------------------------------------------------------------------ actions
\* the next step of some fetcher reads the clock, or none is running
ClockIsRead ==
    \/ \A w \in Workers : fetcher[w].pc \in {"idle", "done"}
    \/ \E w \in Workers : fetcher[w].pc = "clean" /\ fetcher[w].listing = {}

\* time passes; the clock is read by __init__ (line 36) and by line 55 only,
\* so it is advanced just before those reads
Tick ==
    /\ ticks < MaxTicks
    /\ ClockIsRead
    /\ ticks' = ticks + 1
    /\ clock' = HalfDayLater(clock)
    /\ UNCHANGED <<cache_dir, fetcher, started, retry_timer, ui, pending,
                   emitted, fetched, removed, startdir>>

\* line 153 overwrites self.worker_thread, the only reference to the previous
\* fetcher: a finished fetcher's working set is gone with it
Released(f) ==
    IF f.pc = "done" THEN [f EXCEPT !.data = <<>>, !.now = Idle.now] ELSE f

\* Plugin.update_holiday with HolidayFetcher.__init__ and start()
update_holiday(w) ==
    /\ w = started + 1
    /\ fetcher[w].pc = "idle"
    /\ retry_timer' = FALSE
    /\ started' = w
    /\ fetcher' = [v \in Workers |->
                     IF v = w
                     THEN [Idle EXCEPT !.pc = "exists", !.current_year = clock.year,
                                       !.created = clock]
                     ELSE Released(fetcher[v])]
    /\ startdir' = [startdir EXCEPT ![w] = DOMAIN cache_dir]
    /\ UNCHANGED <<clock, ticks, cache_dir, ui, pending, emitted, fetched, removed>>

\* Missing without the existence test: every required year is fetched
Missing_Always(dir, name) == TRUE

\* the test of line 47
Missing(dir, name) == ~Exists(dir, name)

\* run, line 47: os.path.exists(cache_file)
CheckExists(w) ==
    /\ fetcher[w].pc = "exists"
    /\ fetcher' = [fetcher EXCEPT ![w].pc =
                     IF Missing(cache_dir, cache_file(w)) THEN "get" ELSE "load"]
    /\ UNCHANGED <<clock, ticks, cache_dir, started, retry_timer, ui, pending,
                   emitted, fetched, removed, startdir>>

\* Get with the cache file opened for writing before the request is sent:
\* a failed GET leaves an empty file
Get_OpensFirst(w) ==
    /\ fetcher[w].pc = "get"
    /\ LET year == required_years(fetcher[w].current_year)[fetcher[w].i]
       IN  /\ fetched' = [fetched EXCEPT ![w] = Append(@, year)]
           /\ cache_dir' = WithEntry(cache_dir, cache_file(w), File(<<>>))
           /\ \E r \in Responses(year) :
                IF r.ok
                THEN /\ fetcher' = [fetcher EXCEPT ![w].pc = "open",
                                                   ![w].response = r.body]
                     /\ UNCHANGED <<emitted, pending>>
                ELSE Except(w, "RequestException")
    /\ UNCHANGED <<clock, ticks, started, retry_timer, ui, removed, startdir>>

\* _fetch_and_cache, lines 74-76: the GET, raise_for_status and response.json()
Get(w) ==
    /\ fetcher[w].pc = "get"
    /\ LET year == required_years(fetcher[w].current_year)[fetcher[w].i]
       IN  /\ fetched' = [fetched EXCEPT ![w] = Append(@, year)]
           /\ \E r \in Responses(year) :
                IF r.ok
                THEN /\ fetcher' = [fetcher EXCEPT ![w].pc = "open",
                                                   ![w].response = r.body]
                     /\ UNCHANGED <<emitted, pending>>
                ELSE Except(w, "RequestException")
    /\ UNCHANGED <<clock, ticks, cache_dir, started, retry_timer, ui, removed,
                   startdir>>

\* _fetch_and_cache, line 78: open(cache_path, "w") creates or truncates
Open(w) ==
    /\ fetcher[w].pc = "open"
    /\ IF Exists(cache_dir, cache_file(w)) /\ cache_dir[cache_file(w)].kind # "file"
       THEN /\ Except(w, "IsADirectoryError")
            /\ UNCHANGED cache_dir
       ELSE /\ cache_dir' = WithEntry(cache_dir, cache_file(w), File(<<>>))
            /\ fetcher' = [fetcher EXCEPT ![w].pc = "write"]
            /\ UNCHANGED <<emitted, pending>>
    /\ UNCHANGED <<clock, ticks, started, retry_timer, ui, fetched, removed,
                   startdir>>

\* the text reaches the entry the file was opened as, if it is still there.
\* It is written from offset 0 over what the file holds: nothing, unless
\* another writer has written since this one's open() truncated the file,
\* and then the tail of a longer text stays
Written(dir, name, text) ==
    IF Exists(dir, name) /\ dir[name].kind = "file"
    THEN WithEntry(dir, name,
                   File(text \o SubSeq(dir[name].text, Len(text) + 1,
                                       Len(dir[name].text))))
    ELSE dir

\* _fetch_and_cache, lines 79-81: json.dump and the close of the file; the
\* write can fail part-way (disk full, a text utf-8 cannot encode)
Write(w) ==
    /\ fetcher[w].pc = "write"
    /\ LET text == dump(fetcher[w].response)
       IN  \/ /\ cache_dir' = Written(cache_dir, cache_file(w), text)
              /\ fetcher' = [fetcher EXCEPT ![w].pc = "load"]
              /\ UNCHANGED <<emitted, pending>>
           \/ \E n \in {Len(text) \div 2} :
                /\ cache_dir' = Written(cache_dir, cache_file(w), SubSeq(text, 1, n))
                /\ Except(w, "OSError")
    /\ UNCHANGED <<clock, ticks, started, retry_timer, ui, fetched, removed,
                   startdir>>

\* run, line 49: data += self._load_cache(cache_file), and the loop's next
\* iteration or its end
Load(w) ==
    /\ fetcher[w].pc = "load"
    /\ LET e == Extend(fetcher[w].data, _load_cache(cache_dir, cache_file(w)))
       IN  IF e.ok
           THEN /\ fetcher' = [fetcher EXCEPT
                                 ![w].data = e.data,
                                 ![w].response = NoResponse,
                                 ![w].i = IF fetcher[w].i = 2 THEN 2 ELSE @ + 1,
                                 ![w].pc = IF fetcher[w].i = 2 THEN "listdir"
                                           ELSE "exists"]
                /\ UNCHANGED <<emitted, pending>>
           ELSE Except(w, e.exc)
    /\ UNCHANGED <<clock, ticks, cache_dir, started, retry_timer, ui, fetched,
                   removed, startdir>>

\* _cleanup_old_cache, line 98: os.listdir(self.cache_dir)
ListDir(w) ==
    /\ fetcher[w].pc = "listdir"
    /\ fetcher' = [fetcher EXCEPT ![w].pc = "clean",
                                  ![w].listing = DOMAIN cache_dir]
    /\ UNCHANGED <<clock, ticks, cache_dir, started, retry_timer, ui, pending,
                   emitted, fetched, removed, startdir>>

\* IsStale with the year test keeping last year's file as well
IsStale_KeepsLastYear(filename, current_year) ==
    /\ PatternMatch(filename).ok
    /\ PatternMatch(filename).year \notin YearSet(current_year)
    /\ PatternMatch(filename).year # current_year - 1

\* whether lines 99-102 send filename to os.remove
IsStale(filename, current_year) ==
    /\ PatternMatch(filename).ok
    /\ PatternMatch(filename).year \notin YearSet(current_year)

\* _cleanup_old_cache, lines 98-104: one iteration, on any name of the
\* listing (os.listdir promises no order)
Clean(w) ==
    /\ fetcher[w].pc = "clean"
    /\ \E filename \in fetcher[w].listing :
         IF ~IsStale(filename, fetcher[w].current_year)
         THEN /\ fetcher' = [fetcher EXCEPT ![w].listing = @ \ {filename}]
              /\ UNCHANGED <<cache_dir, removed, emitted, pending>>
         ELSE IF ~Exists(cache_dir, filename)
         THEN /\ Except(w, "FileNotFoundError")
              /\ UNCHANGED <<cache_dir, removed>>
         ELSE IF cache_dir[filename].kind # "file"
         THEN /\ Except(w, "PermissionError")
              /\ UNCHANGED <<cache_dir, removed>>
         ELSE /\ cache_dir' = WithoutEntry(cache_dir, filename)
              /\ removed' = [removed EXCEPT ![w] = @ \cup {filename}]
              /\ fetcher' = [fetcher EXCEPT ![w].listing = @ \ {filename}]
              /\ UNCHANGED <<emitted, pending>>
    /\ UNCHANGED <<clock, ticks, started, retry_timer, ui, fetched, startdir>>

\* run, lines 55-67: the scan of data and the emit of its result
Scan(w) ==
    /\ fetcher[w].pc = "clean"
    /\ fetcher[w].listing = {}
    /\ LET r == ScanDays(fetcher[w].data, 1, clock, JNull)
       IN  IF r.ok
           THEN /\ Emit(w, DataReady(OrEmpty(r.nearest)))
                /\ fetcher' = [fetcher EXCEPT ![w].pc = "done", ![w].now = clock]
           ELSE /\ Emit(w, FetchFailed(r.exc))
                /\ fetcher' = [fetcher EXCEPT ![w].pc = "done", ![w].now = clock]
    /\ UNCHANGED <<clock, ticks, cache_dir, started, retry_timer, ui, fetched,
                   removed, startdir>>

\* Deliver with a failure slot that arms the retry timer
Deliver_ArmsRetry ==
    /\ pending # <<>>
    /\ ui' = IF Head(pending).sig = "data_ready"
             THEN _update_ui(ui, Head(pending).arg)
             ELSE ui
    /\ retry_timer' = (retry_timer \/ Head(pending).sig = "fetch_failed")
    /\ pending' = Tail(pending)
    /\ UNCHANGED <<clock, ticks, cache_dir, fetcher, started, emitted, fetched,
                   removed, startdir>>

\* Deliver with a failure slot that falls back to the loading display
Deliver_ResetsOnFailure ==
    /\ pending # <<>>
    /\ ui' = IF Head(pending).sig = "data_ready"
             THEN _update_ui(ui, Head(pending).arg)
             ELSE _update_ui(ui, JNull)
    /\ pending' = Tail(pending)
    /\ UNCHANGED <<clock, ticks, cache_dir, fetcher, started, retry_timer,
                   emitted, fetched, removed, startdir>>

\* the main thread handles the oldest pending signal: _update_ui for
\* data_ready, the logging lambda for fetch_failed
Deliver ==
    /\ pending # <<>>
    /\ ui' = IF Head(pending).sig = "data_ready"
             THEN _update_ui(ui, Head(pending).arg)
             ELSE ui
    /\ pending' = Tail(pending)
    /\ UNCHANGED <<clock, ticks, cache_dir, fetcher, started, retry_timer,
                   emitted, fetched, removed, startdir>>

\* one step of run() of some fetcher
Run(w) ==
    \/ CheckExists(w)
    \/ Get(w)
    \/ Open(w)
    \/ Write(w)
    \/ Load(w)
    \/ ListDir(w)
    \/ Clean(w)
    \/ Scan(w)

\* no refresh is running and no signal waits for the main thread
Quiet ==
    /\ \A w \in Workers : fetcher[w].pc \in {"idle", "done"}
    /\ pending = <<>>

\* refreshes started one after the other, as Plugin.execute starts them
Start == Quiet /\ \E w \in Workers : update_holiday(w)

Next ==
    \/ Start
    \/ \E w \in Workers : CheckExists(w)
    \/ \E w \in Workers : Get(w)
    \/ \E w \in Workers : Open(w)
    \/ \E w \in Workers : Write(w)
    \/ \E w \in Workers : Load(w)
    \/ \E w \in Workers : ListDir(w)
    \/ \E w \in Workers : Clean(w)
    \/ \E w \in Workers : Scan(w)
    \/ Deliver
    \/ Tick

Spec == Init /\ [][Next]_vars

TypeOK ==
    /\ started \in 0..MaxRefresh
    /\ ticks \in 0..MaxTicks
    /\ retry_timer \in BOOLEAN
    /\ \A w \in Workers :
         fetcher[w].pc \in {"idle", "exists", "get", "open", "write", "load",
                            "listdir", "clean", "done"}

\* ------------------------------------------------------------------ fair scheduling
\* the thread of a started fetcher keeps running (the GET returns within its
\* timeout), and the main thread's event loop keeps handling signals
\* run() of fetcher w has been started and has not returned
Running(w) == fetcher[w].pc \notin {"idle", "done"}

\* WF_vars(Run(w)): at every place of run() the step of that place can be
\* taken, so Run(w) is enabled exactly when Running(w)
FairRun(w) == []<>(~Running(w)) \/ []<><<Run(w)>>_vars

FairSpec ==
    /\ Init
    /\ [][Next]_vars
    /\ \A w \in Workers : FairRun(w)
    /\ WF_vars(Deliver)

\* ------------------------------------------------------------------ the scan on drawn working sets
\* the records the working sets are drawn from
RecSet ==
    {Rec("X", DateText(2025, 10, 1), TRUE),
     Rec("Y", DateText(2025, 9, 20), TRUE),
     Rec("W", DateText(2025, 9, 26), FALSE),
     Rec("Y", DateText(2025, 9, 26), TRUE),
     Rec("Z", DateText(2025, 9, 26), TRUE),
     Rec("T", DateText(2025, 9, 25), TRUE)}

WorkingSets == UNION {[1..n -> RecSet] : n \in 0..MaxData}

\* midnight and noon of one day
Nows == {datetime(2025, 9, 25, 0), datetime(2025, 9, 25, 12)}

\* a directory that caches the working set d: its first half as this year's
\* days, the rest as next year's, and a stale file beside them
CachedDir(d) ==
    LET k == (Len(d) + 1) \div 2
    IN  (CacheName(2025) :> File(dump(Body(2025, JList(SubSeq(d, 1, k))))))
          @@ (CacheName(2026) :> File(dump(Body(2026, JList(SubSeq(d, k + 1, Len(d)))))))
          @@ (CacheName(2024) :> File(dump(PA(2024))))

InitNearest ==
    /\ \E d \in WorkingSets, t \in Nows : clock = t /\ cache_dir = CachedDir(d)
    /\ ticks = 0
    /\ fetcher = [w \in Workers |-> Idle]
    /\ started = 0
    /\ retry_timer = FALSE
    /\ ui = Unset
    /\ pending = <<>>
    /\ emitted = [w \in Workers |-> <<>>]
    /\ fetched = [w \in Workers |-> <<>>]
    /\ removed = [w \in Workers |-> {}]
    /\ startdir = [w \in Workers |-> {}]

NextNearest ==
    \/ Start
    \/ \E w \in Workers : CheckExists(w)
    \/ \E w \in Workers : Load(w)
    \/ \E w \in Workers : ListDir(w)
    \/ \E w \in Workers : Clean(w)
    \/ \E w \in Workers : Scan(w)
    \/ Deliver

SpecNearest == InitNearest /\ [][NextNearest]_vars

\* ------------------------------------------------------------------ overlapping refreshes
\* update_holiday called again while the fetcher of the call before is still
\* running: line 153 starts a new thread and stops none
\* this year's cache file and a stale one: next year's file is missing
StaleAndThisYear ==
    (CacheName(2024) :> File(dump(PA(2024))))
      @@ (CacheName(2025) :> File(dump(PB(2025))))

\* New Year's Eve: every off-day still to come is next year's
InitOverlap ==
    /\ clock = datetime(2025, 12, 31, 12)
    /\ cache_dir = StaleAndThisYear
    /\ ticks = 0
    /\ fetcher = [w \in Workers |-> Idle]
    /\ started = 0
    /\ retry_timer = FALSE
    /\ ui = Unset
    /\ pending = <<>>
    /\ emitted = [w \in Workers |-> <<>>]
    /\ fetched = [w \in Workers |-> <<>>]
    /\ removed = [w \in Workers |-> {}]
    /\ startdir = [w \in Workers |-> {}]

NextOverlap ==
    \/ \E w \in Workers : update_holiday(w)
    \/ \E w \in Workers : CheckExists(w)
    \/ \E w \in Workers : Get(w)
    \/ \E w \in Workers : Open(w)
    \/ \E w \in Workers : Write(w)
    \/ \E w \in Workers : Load(w)
    \/ \E w \in Workers : ListDir(w)
    \/ \E w \in Workers : Clean(w)
    \/ \E w \in Workers : Scan(w)
    \/ Deliver

SpecOverlap == InitOverlap /\ [][NextOverlap]_vars

\* ------------------------------------------------------------------ vocabulary of the properties
\* run() of fetcher w has returned
Finished(w) == fetcher[w].pc = "done"

\* w is the fetcher started last
Latest(w) == w = started

Succeeded(w) ==
    Finished(w) /\ Len(emitted[w]) = 1 /\ emitted[w][1].sig = "data_ready"

\* w has emitted fetch_failed with an exception among excs
FailedWith(w, excs) ==
    \E k \in 1..Len(emitted[w]) :
        emitted[w][k].sig = "fetch_failed" /\ emitted[w][k].exc \in excs

\* the names of the cache files of the years w requires
YearNames(w) ==
    {CacheName(y) : y \in {fetcher[w].current_year, fetcher[w].current_year + 1}}

\* filename is, as a whole, holidays_<four digits>.json
IsCacheFileName(filename) ==
    /\ Len(filename) = 18
    /\ SubSeq(filename, 1, 9) = Prefix
    /\ \A i \in 10..13 : filename[i] \in {Digits[j] : j \in 1..10}
    /\ SubSeq(filename, 14, 18) = Ext

CacheFilesOnDisk == {n \in DOMAIN cache_dir : IsCacheFileName(n)}

\* w has run the scan of lines 55-67 and still holds its working set
Scanned(w) == Finished(w) /\ fetcher[w].now # Idle.now

\* day is a complete HolidayRecord
WellFormed(day) ==
    /\ day.t = "dict"
    /\ HasKey(day, K_name) /\ HasKey(day, K_date) /\ HasKey(day, K_isOffDay)
    /\ GetItem(day, K_date).t = "str"
    /\ strptime(GetItem(day, K_date).s).ok
    /\ GetItem(day, K_isOffDay).t = "bool"

AllWellFormed(data) == \A i \in 1..Len(data) : WellFormed(data[i])

DateOf(day) == strptime(GetItem(day, K_date).s).dt

\* day is an off-day dated at or after now
Qualifies(day, now) ==
    GetItem(day, K_isOffDay).b /\ Hours(DateOf(day)) >= Hours(now)

Qualifying(data, now) == {i \in 1..Len(data) : Qualifies(data[i], now)}

\* floor((date - now) in days)
FloorDays(day, now) == (Hours(DateOf(day)) - Hours(now)) \div 24

\* the first record, in working-set order, of minimal FloorDays among the
\* qualifying ones (there being one)
FirstMinimal(data, now) ==
    LET Q == Qualifying(data, now)
        m == CHOOSE d \in {FloorDays(data[i], now) : i \in Q} :
               \A i \in Q : d <= FloorDays(data[i], now)
    IN  CHOOSE i \in Q :
          /\ FloorDays(data[i], now) = m
          /\ \A j \in Q : FloorDays(data[j], now) = m => i <= j

\* ------------------------------------------------------------------ C1
\* C1 (as stated): once run() of the latest refresh has reached its end, the
\* cache files on disk are exactly those of current_year and current_year+1.
C1_ExactCoverAfterRun ==
    \A w \in Workers :
        (Latest(w) /\ Finished(w)) => CacheFilesOnDisk = YearNames(w)

\* C1 (amended): once the latest refresh has ended by emitting data_ready,
\* the cache files on disk are exactly those of current_year and
\* current_year+1: none is missing and no other year's file is present.
C1_ExactCoverAfterSuccess ==
    \A w \in Workers :
        (Latest(w) /\ Succeeded(w)) => CacheFilesOnDisk = YearNames(w)

\* a successful refresh that both fetched a year and removed a stale file
C1_Witness ==
    \E w \in Workers :
        /\ Latest(w) /\ Succeeded(w)
        /\ fetched[w] # <<>>
        /\ \E n \in removed[w] : IsCacheFileName(n)

\* ------------------------------------------------------------------ C2
SameDay(a, b) == a.year = b.year /\ a.month = b.month /\ a.day = b.day

\* C2: a refresh constructed when the cache files of both its required years
\* exist sends no GET; and a refresh constructed on the same clock day as
\* the refresh before it, that one having succeeded, sends no GET.
C2_NoFetchWhenCached ==
    \A w \in Workers :
        fetcher[w].pc # "idle" =>
          /\ (YearNames(w) \subseteq startdir[w]) => fetched[w] = <<>>
          /\ \A v \in Workers :
               (v + 1 = w /\ Succeeded(v)
                  /\ SameDay(fetcher[v].created, fetcher[w].created))
                 => fetched[w] = <<>>

\* a refresh that fetched and succeeded, followed on the same day by a
\* finished refresh that fetched nothing
C2_Witness ==
    \E v, w \in Workers :
        /\ v + 1 = w
        /\ Succeeded(v) /\ fetched[v] # <<>>
        /\ SameDay(fetcher[v].created, fetcher[w].created)
        /\ Succeeded(w) /\ fetched[w] = <<>>

\* ------------------------------------------------------------------ C3
\* C3: for a working set of complete records of which some qualify (off-day,
\* date >= now), the refresh emits exactly one signal, data_ready with the
\* first record in working-set order among the qualifying ones of minimal
\* floor((date - now) in days), and that days_left is not negative.
C3_NearestIsFirstMinimal ==
    \A w \in Workers :
        (/\ Scanned(w)
         /\ AllWellFormed(fetcher[w].data)
         /\ Qualifying(fetcher[w].data, fetcher[w].now) # {})
          => LET data == fetcher[w].data
                 now == fetcher[w].now
                 i == FirstMinimal(data, now)
             IN  /\ emitted[w] =
                      <<DataReady(Holiday(GetItem(data[i], K_name),
                                          GetItem(data[i], K_date),
                                          FloorDays(data[i], now)))>>
                 /\ FloorDays(data[i], now) >= 0

\* two qualifying records of different names tie for the minimum, after a
\* qualifying record that is further away
C3_Witness ==
    \E w \in Workers :
        /\ Scanned(w) /\ AllWellFormed(fetcher[w].data)
        /\ LET data == fetcher[w].data
               now == fetcher[w].now
               Q == Qualifying(data, now)
           IN  /\ Q # {}
               /\ \E i, j \in Q :
                    /\ i < j
                    /\ i = FirstMinimal(data, now)
                    /\ FloorDays(data[i], now) = FloorDays(data[j], now)
                    /\ GetItem(data[i], K_name) # GetItem(data[j], K_name)
               /\ \E k \in Q : k < FirstMinimal(data, now)

\* ------------------------------------------------------------------ C4
\* C4: when the GET of a required year has failed (network error, timeout,
\* non-2xx status, unparsable body), the refresh has emitted no data_ready,
\* has removed nothing (every entry present at its start is still there),
\* and the year whose fetch failed has no cache file.
C4_FetchFailureAborts ==
    \A w \in Workers :
        (Latest(w) /\ FailedWith(w, {"RequestException"}))
          => /\ Finished(w)
             /\ emitted[w] = <<FetchFailed("RequestException")>>
             /\ removed[w] = {}
             /\ startdir[w] \subseteq DOMAIN cache_dir
             /\ ~Exists(cache_dir, CacheName(fetched[w][Len(fetched[w])]))

\* the first year was fetched and cached, the second year's GET failed, and
\* a stale cache file is still on disk
C4_Witness ==
    \E w \in Workers :
        /\ Latest(w) /\ FailedWith(w, {"RequestException"})
        /\ Len(fetched[w]) = 2
        /\ Exists(cache_dir, CacheName(fetched[w][1]))
        /\ \E n \in DOMAIN cache_dir :
             IsCacheFileName(n) /\ n \notin YearNames(w)

\* ------------------------------------------------------------------ C5
\* the days a cache entry holds are not a list of complete records, or the
\* entry cannot be read or parsed at all
Malformed(entry) ==
    \/ entry.kind # "file"
    \/ ~load(entry.text).ok
    \/ load(entry.text).v.t # "dict"
    \/ /\ HasKey(load(entry.text).v, K_days)
       /\ \/ GetItem(load(entry.text).v, K_days).t # "list"
          \/ ~AllWellFormed(GetItem(load(entry.text).v, K_days).l)

\* C5 (as stated): when both required years' cache files exist at the start
\* of a refresh and one of them is unreadable or malformed, the refresh does
\* not fail over the files' content: it emits no fetch_failed carrying an
\* error of reading the data (TypeError, KeyError, ValueError).
C5_BadFileTolerated ==
    \A w \in Workers :
        (/\ Latest(w) /\ Finished(w)
         /\ YearNames(w) \subseteq startdir[w]
         /\ \E n \in YearNames(w) : Exists(cache_dir, n) /\ Malformed(cache_dir[n]))
          => ~FailedWith(w, {"TypeError", "KeyError", "ValueError"})

\* ------------------------------------------------------------------ C6
\* C6 (as stated): an error of os.remove on a stale file does not end the
\* refresh in failure: no fetch_failed carries the removal's error.
C6_RemoveErrorTolerated ==
    \A w \in Workers : ~FailedWith(w, {"PermissionError"})

\* ------------------------------------------------------------------ C7
\* C7: for a working set of complete records of which none qualifies (the
\* empty working set included), the refresh emits exactly one signal,
\* data_ready with the empty dict, and no fetch_failed.
C7_EmptyResultWhenNoneQualifies ==
    \A w \in Workers :
        (/\ Scanned(w)
         /\ AllWellFormed(fetcher[w].data)
         /\ Qualifying(fetcher[w].data, fetcher[w].now) = {})
          => emitted[w] = <<DataReady(JDict(<<>>))>>

\* a scan of a working set that holds a past off-day and a future working
\* day, none qualifying
C7_Witness ==
    \E w \in Workers :
        /\ Scanned(w) /\ AllWellFormed(fetcher[w].data)
        /\ Qualifying(fetcher[w].data, fetcher[w].now) = {}
        /\ \E i, j \in 1..Len(fetcher[w].data) :
             /\ GetItem(fetcher[w].data[i], K_isOffDay).b
             /\ Hours(DateOf(fetcher[w].data[i])) < Hours(fetcher[w].now)
             /\ ~GetItem(fetcher[w].data[j], K_isOffDay).b
             /\ Hours(DateOf(fetcher[w].data[j])) >= Hours(fetcher[w].now)
        /\ emitted[w] = <<DataReady(JDict(<<>>))>>

\* ------------------------------------------------------------------ C8
\* C8: every started refresh eventually finishes; a finished refresh has
\* emitted exactly one signal (data_ready or fetch_failed) and an unfinished
\* one none, so never both and never neither.
C8_OneOutcome ==
    \A w \in Workers :
        /\ (fetcher[w].pc # "idle") ~> Finished(w)
        /\ [](Finished(w) => Len(emitted[w]) = 1)
        /\ [](~Finished(w) => Len(emitted[w]) = 0)

\* a finished refresh with a failure as its one outcome, after a finished
\* refresh with a result as its one outcome
C8_Witness ==
    \E v, w \in Workers :
        /\ v < w
        /\ Finished(v) /\ Len(emitted[v]) = 1 /\ emitted[v][1].sig = "data_ready"
        /\ Finished(w) /\ Len(emitted[w]) = 1 /\ emitted[w][1].sig = "fetch_failed"

\* ------------------------------------------------------------------ C9
\* calendar days from the day of now to the day of the record
CalendarDays(day, now) ==
    toordinal(DateOf(day).year, DateOf(day).month, DateOf(day).day)
      - toordinal(now.year, now.month, now.day)

\* C9 (as stated): the record a scan of complete records reports is dated
\* at or after now, and its days_left is the number of calendar days from
\* the day of the refresh to the record's date, at any time of day.
C9_CalendarDaysLeft ==
    \A w \in Workers :
        (/\ Scanned(w)
         /\ AllWellFormed(fetcher[w].data)
         /\ Len(emitted[w]) = 1
         /\ emitted[w][1].sig = "data_ready"
         /\ Truthy(emitted[w][1].arg))
          => \E i \in 1..Len(fetcher[w].data) :
               /\ GetItem(fetcher[w].data[i], K_date) = GetItem(emitted[w][1].arg, K_date)
               /\ Hours(DateOf(fetcher[w].data[i])) >= Hours(fetcher[w].now)
               /\ GetItem(emitted[w][1].arg, K_days_left).n
                    = CalendarDays(fetcher[w].data[i], fetcher[w].now)

\* ------------------------------------------------------------------ C10
\* the days array of a response body; the empty list when it has none
DaysOf(body) ==
    IF body.t = "dict" /\ HasKey(body, K_days) THEN GetItem(body, K_days)
    ELSE EmptyList

\* C10: when _fetch_and_cache has written a fetched payload to the year's
\* cache file, _load_cache of that file gives the days array of the response
\* body, and the empty list when the body has no days field.
C10_RoundTrip ==
    \A w \in Workers :
        (fetcher[w].pc = "load" /\ fetcher[w].response # NoResponse)
          => _load_cache(cache_dir, cache_file(w)) = DaysOf(fetcher[w].response)

\* a payload with several records has been written and is about to be loaded
C10_Witness ==
    \E w \in Workers :
        /\ fetcher[w].pc = "load" /\ fetcher[w].response # NoResponse
        /\ DaysOf(fetcher[w].response).t = "list"
        /\ Len(DaysOf(fetcher[w].response).l) > 1
        /\ _load_cache(cache_dir, cache_file(w)) = DaysOf(fetcher[w].response)

\* ------------------------------------------------------------------ C11
\* the refreshes whose result _update_ui has handled: refreshes follow one
\* another, so a pending signal is that of the refresh started last
ResultsShown ==
    {w \in Workers :
        /\ Len(emitted[w]) > 0
        /\ emitted[w][1].sig = "data_ready"
        /\ (w < started \/ pending = <<>>)}

\* C11: after any sequence of delivered results (failures between them
\* included), the display is that of the last delivered result: an empty
\* result shows the loading label with the neutral icon visible; a populated
\* one shows the holiday name with its days_left, the icon being visible
\* exactly when days_left < 2, and then the urgent one.
C11_IconFollowsLastResult ==
    ResultsShown # {} =>
      LET w == CHOOSE x \in ResultsShown : \A v \in ResultsShown : v <= x
          holiday == emitted[w][1].arg
      IN  IF ~Truthy(holiday)
          THEN /\ ui.title = [kind |-> "loading"]
               /\ ui.icon = "ASTERISK"
               /\ ui.visible
          ELSE /\ ui.title = [kind |-> "until", name |-> GetItem(holiday, K_name)]
               /\ ui.content = [days |-> GetItem(holiday, K_days_left)]
               /\ ui.visible <=> (GetItem(holiday, K_days_left).n < 2)
               /\ ui.visible => ui.icon = "CALORIES"

\* two results were delivered: one with days_left < 2, which showed the
\* urgent icon, then one with days_left >= 2, which hid it
C11_Witness ==
    /\ pending = <<>>
    /\ Cardinality(ResultsShown) = 2
    /\ ui.title.kind = "until"
    /\ ui.content.days.n >= 2
    /\ ui.icon = "CALORIES"
    /\ ~ui.visible

\* ------------------------------------------------------------------ C12
\* a step in which a refresh emits fetch_failed, or in which the main thread
\* handles a fetch_failed
FailureStep ==
    \/ \E w \in Workers :
         /\ Len(emitted'[w]) = Len(emitted[w]) + 1
         /\ emitted'[w][Len(emitted'[w])].sig = "fetch_failed"
    \/ /\ pending # <<>>
       /\ Head(pending).sig = "fetch_failed"
       /\ pending' = Tail(pending)

\* C12: the failure of a refresh changes nothing on display: title,
\* content, icon kind and icon visibility are the same after the emit of
\* fetch_failed and after its handling as they were before.
C12_FailureLeavesDisplay == [][FailureStep => ui' = ui]_vars

\* a failure was emitted and handled while the result of an earlier refresh
\* is on display
C12_Witness ==
    /\ pending = <<>>
    /\ ResultsShown # {}
    /\ \E w \in Workers :
         Latest(w) /\ Finished(w) /\ emitted[w][1].sig = "fetch_failed"
    /\ ui.title.kind = "until"

\* ------------------------------------------------------------------ C13
\* the cache files of w's required years that were on disk when w was
\* constructed; refreshes follow one another, so w finds them at line 47
FoundPresent(w) == YearNames(w) \cap startdir[w]

\* a step of run() of w neither removes nor rewrites a file it found
\* present, and sends no GET for its year
KeepsPresent(w) ==
    Running(w) =>
      /\ \A n \in FoundPresent(w) :
           /\ Exists(cache_dir, n) => Exists(cache_dir', n)
           /\ (Exists(cache_dir, n) /\ Exists(cache_dir', n))
                 => cache_dir'[n] = cache_dir[n]
      /\ \A k \in 1..Len(fetched'[w]) :
           CacheName(fetched'[w][k]) \notin FoundPresent(w)

\* the step of line 49 on a file found present and malformed adds no
\* record and raises nothing
LoadsNothingFromBad(w) ==
    (/\ fetcher[w].pc = "load"
     /\ fetcher'[w] # fetcher[w]
     /\ cache_file(w) \in FoundPresent(w)
     /\ Exists(cache_dir, cache_file(w))
     /\ Malformed(cache_dir[cache_file(w)]))
      => /\ fetcher'[w].data = fetcher[w].data
         /\ emitted'[w] = emitted[w]

\* the frame part of C13 alone: a required year's file found present is
\* neither fetched again, nor rewritten, nor deleted by the refresh
C13_PresentFileKept == [][\A w \in Workers : KeepsPresent(w)]_vars

\* C13 (as stated): a required year's cache file that exists when the
\* refresh checks it is not fetched again, rewritten or deleted by that
\* refresh, and when its content is malformed every refresh that finds it
\* loads zero records from it.
C13_PresentFileLeftAlone ==
    [][\A w \in Workers : KeepsPresent(w) /\ LoadsNothingFromBad(w)]_vars

\* ------------------------------------------------------------------ C14
\* C14: the retry timer is active in no reachable state, whatever the
\* refreshes did: it is constructed inactive, update_holiday stops it, and
\* neither run() nor a slot starts it, so its timeout never calls
\* update_holiday.
C14_RetryNeverActive == ~retry_timer

\* a refresh has failed, its failure has been handled, nothing is running,
\* and the timer is not active
C14_Witness ==
    /\ Quiet
    /\ ~retry_timer
    /\ \E w \in Workers :
         Latest(w) /\ Finished(w) /\ emitted[w][1].sig = "fetch_failed"

\* ------------------------------------------------------------------ C15
\* the year a whole cache file name encodes
YearOfName(filename) == int(SubSeq(filename, 10, 13))

\* C15 (as stated): every entry a refresh has removed is named, as a
\* whole, holidays_<4-digit year>.json with a year outside its
\* required_years, and every other entry that was in the directory when the
\* latest refresh started (holidays_2020.json.bak among them) is still there.
C15_OnlyWholeNamesRemoved ==
    \A w \in Workers :
        /\ \A n \in removed[w] :
             /\ IsCacheFileName(n)
             /\ YearOfName(n) \notin YearSet(fetcher[w].current_year)
        /\ Latest(w) =>
             \A n \in startdir[w] : ~IsCacheFileName(n) => Exists(cache_dir, n)

\* ------------------------------------------------------------------ C16
\* the failures a refresh running alone can end in as well: a failed GET,
\* a failed write, data that lines 49 and 57-66 cannot use
LoneFailures == {"RequestException", "OSError", "TypeError", "KeyError", "ValueError"}

\* no refresh has failed over its fetch, its write or the fetched data
FetchesWentWell == \A v \in Workers : ~FailedWith(v, LoneFailures)

\* C16 (as stated): when refreshes with the same required years overlap on
\* one cache directory that holds a stale file, and every fetch succeeds,
\* each refresh that has finished has emitted a result and no failure, in
\* every interleaving of their steps.
C16_OverlapBothSucceed ==
    FetchesWentWell => \A w \in Workers : Finished(w) => Succeeded(w)

\* ------------------------------------------------------------------ C17
\* the file holds exactly the dump of a response body
CompleteFile(dir, name) ==
    /\ Exists(dir, name)
    /\ dir[name].kind = "file"
    /\ PatternMatch(name).ok
    /\ \E p \in Payloads(PatternMatch(name).year) : dir[name].text = dump(p)

\* the step of line 49 of fetcher w
LoadStep(w) == fetcher[w].pc = "load" /\ fetcher'[w] # fetcher[w]

\* C17 (as stated): when refreshes overlap and every fetch succeeds, the
\* file a refresh loads at line 49 holds a complete payload: it is never a
\* file another refresh has opened for writing and not finished writing.
C17_LoadsCompleteFiles ==
    [][\A w \in Workers :
          (FetchesWentWell /\ LoadStep(w)) => CompleteFile(cache_dir, cache_file(w))]_vars

\* ------------------------------------------------------------------ C18
\* the refresh v fetched and cached current_year, and ended on the failed
\* GET of current_year+1
HalfFetched(v) ==
    /\ Finished(v)
    /\ fetched[v] = required_years(fetcher[v].current_year)
    /\ emitted[v] = <<FetchFailed("RequestException")>>

\* C18 (as stated): after a refresh whose fetch of current_year succeeded
\* and whose fetch of current_year+1 failed, the cache file of current_year
\* is on disk, and the refresh after it fetches current_year+1 and no other
\* year.
C18_NextFetchesOnlyNextYear ==
    \A v, w \in Workers :
        (w = v + 1 /\ HalfFetched(v)) =>
          /\ Latest(v) => Exists(cache_dir, CacheName(fetcher[v].current_year))
          /\ fetcher[w].pc # "idle" =>
               /\ fetched[w] \in {<<>>, <<fetcher[v].current_year + 1>>}
               /\ Finished(w) => fetched[w] = <<fetcher[v].current_year + 1>>

\* C18 (amended): after such a refresh the cache file of current_year is on
\* disk; a next refresh constructed in the same calendar year keeps it
\* (it is on disk until a later refresh starts) and fetches current_year+1
\* and no other year.
C18_NextFetchesOnlyMissingYear ==
    \A v, w \in Workers :
        (w = v + 1 /\ HalfFetched(v)) =>
          /\ Latest(v) => Exists(cache_dir, CacheName(fetcher[v].current_year))
          /\ (fetcher[w].pc # "idle"
                /\ fetcher[w].current_year = fetcher[v].current_year) =>
               /\ Latest(w) => Exists(cache_dir, CacheName(fetcher[v].current_year))
               /\ fetched[w] \in {<<>>, <<fetcher[v].current_year + 1>>}
               /\ Finished(w) => fetched[w] = <<fetcher[v].current_year + 1>>

\* a refresh ended on the failed GET of current_year+1, and the refresh
\* after it, in the same year, fetched that year alone and succeeded
C18_Witness ==
    \E v, w \in Workers :
        /\ w = v + 1 /\ HalfFetched(v)
        /\ fetcher[w].current_year = fetcher[v].current_year
        /\ Succeeded(w)
        /\ fetched[w] = <<fetcher[v].current_year + 1>>

====
